---- MODULE Spec2Model ----
(***************************************************************************)
(* Expense Manager API: the FastAPI request handlers of backend/server.py  *)
(* over the data-access class ExpenseDatabase of backend/db_helper.py.     *)
(*                                                                         *)
(* The `expenses` table is a sequence of rows in id order.  The effect of   *)
(* a request handler (validation, the storage guard, every data-access     *)
(* call it makes, the error mapping) is computed by an operator named      *)
(* after the handler, which returns the response together with the table   *)
(* the request leaves behind.  A handler that makes one data-access call   *)
(* is one action.  The create-batch handler makes one call per item, each  *)
(* in a transaction of its own, and takes three steps per call: the call   *)
(* up to the INSERT's execute, which draws the id; the commit, which makes *)
(* the row visible; and the return, at which the handler appends the id or *)
(* answers.  The requests of other workers are served between those        *)
(* steps: Spec has one create-batch in its loop among the requests of      *)
(* every operation, SpecBatches has create-batches beside one another      *)
(* with deletes.  The delete handler takes two steps: the call up to the   *)
(* DELETE's execute, which fixes the rows it matched, and the commit with  *)
(* the answer.  What the storage driver does during one data-access call   *)
(* is an input: a fault.                                                   *)
(***************************************************************************)
EXTENDS Integers, Sequences, FiniteSets, TLC

\* db        the module-level storage handle of server.py, or "None"
\* table     the committed rows of the expenses table, in the order of their ids
\* lastId    the last value that AUTO_INCREMENT handed out
\* resp      the response sent in the step just taken, with the data-access
\*           methods its request called; NoResponse when the step sent none
\* cm        the data-access call that SpecCursor follows driver call by
\*           driver call
\* inflight  the create-batch requests in their loops, in the order they
\*           arrived, each with its payload, the ids collected so far and its
\*           place in the insert under way; a request that was just answered
\*           stays for the state of its answer
\* deleting  the delete-for-date requests whose DELETE has executed and is
\*           not committed yet, each with the rows it matched
VARIABLES db, table, lastId, resp, cm, inflight, deleting

vars == <<db, table, lastId, resp, cm, inflight, deleting>>

\* ------------------------------------------------------------------ bounds

\* ids the AUTO_INCREMENT counter may hand out before the model stops adding
MaxId == 3

\* items of one create-batch
MaxLen == 2

\* create-batch requests that are in their loops at one time, beside one
\* another
MaxBatches == 2

\* create-batch requests that are in their loops at one time among the
\* requests of every other operation
MaxAlone == 1

\* delete-for-date requests that are between the execute and the commit of
\* their DELETE at one time
MaxDeletes == 1

\* ------------------------------------------------------------------ inputs

\* two consecutive calendar days stand for the ISO dates of the boundary
Dates == {1, 2}

\* request payload items of POST /expenses/{date}: two valid ones, one with
\* amount 0 and one with a negative amount
Items ==
    { [category |-> "Food",      notes |-> "Lunch", amount |-> 2],
      [category |-> "Transport", notes |-> "Bus",   amount |-> 1],
      [category |-> "Food",      notes |-> "Lunch", amount |-> 0],
      [category |-> "Transport", notes |-> "Bus",   amount |-> -1] }

SeqsUpTo(S, n) == UNION { [1..k -> S] : k \in 0..n }

Batches == SeqsUpTo(Items, MaxLen)

\* payload items that differ in their texts: an empty category, empty notes,
\* notes left out, category left out
TextItems ==
    { [category |-> "",     notes |-> "Lunch", amount |-> 2],
      [category |-> "Food", notes |-> "",      amount |-> 1],
      [category |-> "Food", amount |-> 2],
      [notes |-> "Bus",     amount |-> 1] }

TextBatches == SeqsUpTo(TextItems, MaxLen)

\* What the driver does during one data-access call:
\*   none        every driver call succeeds
\*   connect     mysql.connector.connect raises
\*   execute     cursor.execute raises
\*   commit      conn.commit raises
\*   disconnect  the statement ran, and conn.is_connected() is False afterwards
Faults == {"none", "connect", "execute", "commit", "disconnect"}

NoFaults(n) == [i \in 1..n |-> "none"]

\* the fault plans of a batch of n inserts: a fault is drawn for each call that
\* is made.  The loop stops at the first insert that raises, and a payload
\* with a non-positive amount never reaches the loop.
FaultPlans(expenses) ==
    LET n == Len(expenses)
    IN  IF \E i \in 1..n : expenses[i].amount <= 0 THEN {NoFaults(n)}
        ELSE { f \in [1..n -> Faults] :
                 \A i \in 1..n : \A j \in 1..n :
                     (i < j /\ f[i] \in {"connect", "execute", "commit"})
                         => f[j] = "none" }

\* the payloads of POST /expenses/{date}, each with a fault plan
AddInputs ==
    UNION { { [expenses |-> e, faults |-> f] : f \in FaultPlans(e) } :
            e \in Batches }

\* ------------------------------------------------- data access (db_helper)

\* ExpenseDatabase(): __init__ stores the connection parameters and opens no
\* connection, so whether the storage server is reachable plays no part in it,
\* and no statement of it raises: the handle always exists.
ExpenseDatabase(reachable) == "ExpenseDatabase"

\* One pass through the context manager around one statement.
\*   raised     the data-access method raises mysql.connector.Error
\*   executed   cursor.execute returned
\*   committed  conn.commit returned
\*   rolledback conn.rollback was called
get_db_cursor(commit, fault) ==
    LET connected == fault # "connect"
        executed  == connected /\ fault # "execute"
        \* line 49: if commit and conn.is_connected(): conn.commit()
        commitTried == executed /\ commit /\ fault # "disconnect"
        raised    == ~executed \/ (commitTried /\ fault = "commit")
    IN  [ raised     |-> raised,
          err        |-> IF raised THEN fault ELSE "",
          executed   |-> executed,
          committed  |-> commitTried /\ fault # "commit",
          \* line 53: if commit and conn and conn.is_connected(): conn.rollback()
          rolledback |-> raised /\ commit /\ connected ]

\* the SELECT without its WHERE clause
RowsOfAnyDate(t, d) == t

RowsForDate(t, d) == SelectSeq(t, LAMBDA r : r.expense_date = d)

RowsNotForDate(t, d) == SelectSeq(t, LAMBDA r : r.expense_date # d)

\* the range read as closed at the start and open at the end
RowsBetweenHalfOpen(t, s, e) ==
    SelectSeq(t, LAMBDA r : s <= r.expense_date /\ r.expense_date < e)

RowsBetween(t, s, e) ==
    SelectSeq(t, LAMBDA r : s <= r.expense_date /\ r.expense_date <= e)

fetch_expenses_for_date(t, expense_date, fault) ==
    LET c == get_db_cursor(FALSE, fault)
    IN  [ raised |-> c.raised, err |-> c.err,
          value  |-> IF c.raised THEN <<>> ELSE RowsForDate(t, expense_date),
          table  |-> t ]

\* what the driver may do up to cursor.execute, and from there on
ExecuteFaults == {"none", "connect", "execute"}

CommitFaults == {"none", "commit", "disconnect"}

\* delete_expenses_for_date up to cursor.rowcount (lines 40-46, 91-93):
\* connect, cursor and execute.  The DELETE that executed has matched the
\* committed rows of the date; rowcount is their number.
delete_execute(t, expense_date, fault) ==
    LET c    == get_db_cursor(TRUE, fault)
        rows == RowsForDate(t, expense_date)
    IN  [ raised |-> ~c.executed,
          err    |-> IF c.executed THEN "" ELSE c.err,
          ids    |-> IF c.executed THEN { rows[i].id : i \in 1..Len(rows) }
                     ELSE {} ]

\* delete_expenses_for_date from the end of the with-block on (lines 49-57):
\* the commit of the DELETE that executed removes the rows it matched; a
\* commit that raises is rolled back, a connection found lost leaves the
\* commit out
delete_commit(t, ids, fault) ==
    LET c == get_db_cursor(TRUE, fault)
    IN  [ raised |-> c.raised, err |-> c.err,
          table  |-> IF c.committed
                     THEN SelectSeq(t, LAMBDA r : r.id \notin ids) ELSE t ]

\* delete_expenses_for_date with no other request served during the call
delete_expenses_for_date_db(t, expense_date, fault) ==
    LET x == delete_execute(t, expense_date, fault)
        y == delete_commit(t, x.ids, fault)
    IN  IF x.raised
        THEN [ raised |-> TRUE, err |-> x.err, value |-> 0, table |-> t ]
        ELSE [ raised |-> y.raised, err |-> y.err,
               \* cursor.rowcount of the DELETE
               value  |-> IF y.raised THEN 0 ELSE Cardinality(x.ids),
               \* the DELETE is kept only when its transaction was committed
               table  |-> y.table ]

\* the table with row put at the place of its id: a SELECT hands the rows
\* back in the order of the primary key
InsertById(t, row) ==
    SelectSeq(t, LAMBDA r : r.id < row.id) \o <<row>>
        \o SelectSeq(t, LAMBDA r : r.id > row.id)

\* insert_expense up to cursor.lastrowid (lines 40-46, 110-112): connect,
\* cursor and execute.  The INSERT that executed took the next AUTO_INCREMENT
\* value, which is not given back on rollback; its row is not visible yet.
insert_execute(lid, fault) ==
    LET c == get_db_cursor(TRUE, fault)
    IN  [ raised |-> ~c.executed,
          err    |-> IF c.executed THEN "" ELSE c.err,
          value  |-> IF c.executed THEN lid + 1 ELSE 0,
          lastId |-> IF c.executed THEN lid + 1 ELSE lid ]

\* the INSERT that never reaches a commit
insert_commit_deferred(t, row, fault) ==
    LET c == get_db_cursor(TRUE, fault)
    IN  [ raised |-> c.raised, err |-> c.err, committed |-> c.committed,
          table |-> t ]

\* insert_expense from the end of the with-block on (lines 49-57): the commit
\* of the INSERT that executed makes its row visible; a commit that raises is
\* rolled back, a connection found lost leaves the commit out
insert_commit(t, row, fault) ==
    LET c == get_db_cursor(TRUE, fault)
    IN  [ raised |-> c.raised, err |-> c.err, committed |-> c.committed,
          table |-> IF c.committed THEN InsertById(t, row) ELSE t ]

\* insert_expense with no other request served during the call
insert_expense(t, lid, expense_date, category, notes, amount, fault) ==
    LET x   == insert_execute(lid, fault)
        row == [ id |-> x.value, expense_date |-> expense_date,
                 category |-> category, notes |-> notes, amount |-> amount ]
        y   == insert_commit(t, row, fault)
    IN  IF x.raised
        THEN [ raised |-> TRUE, err |-> x.err, value |-> 0, table |-> t,
               lastId |-> x.lastId ]
        ELSE [ raised |-> y.raised, err |-> y.err,
               \* cursor.lastrowid of the INSERT
               value  |-> IF y.raised THEN 0 ELSE x.value,
               table  |-> y.table,
               lastId |-> x.lastId ]

RECURSIVE SumAmount(_)
SumAmount(rows) ==
    IF rows = <<>> THEN 0 ELSE Head(rows).amount + SumAmount(Tail(rows))

\* SELECT category, SUM(amount) as total_amount ... GROUP BY category: one
\* group per category among the rows
GroupByCategory(rows) ==
    { [ category |-> c,
        total_amount |-> SumAmount(SelectSeq(rows, LAMBDA r : r.category = c)) ] :
      c \in { rows[i].category : i \in 1..Len(rows) } }

\* the statement has no ORDER BY: fetchall() hands the groups back in whatever
\* order the engine produced them
ResultOrders(groups) ==
    { f \in [1..Cardinality(groups) -> groups] :
        \A i \in DOMAIN f : \A j \in DOMAIN f : f[i] = f[j] => i = j }

\* what the summary statement may fetch from table t
SummaryRows(t, start_date, end_date) ==
    ResultOrders(GroupByCategory(RowsBetween(t, start_date, end_date)))

\* fetched is the engine's answer, one of SummaryRows(t, start_date, end_date)
fetch_expense_summary(t, start_date, end_date, fault, fetched) ==
    LET c == get_db_cursor(FALSE, fault)
    IN  [ raised |-> c.raised, err |-> c.err,
          value  |-> IF c.raised THEN <<>> ELSE fetched,
          table  |-> t ]

\* ------------------------------- _get_db_cursor, statement by statement

\* the payload items that pass validation
ValidItems == { e \in Items : e.amount > 0 }

\* the data-access methods; insert and delete enter the block with commit=True
Operations == {"fetch", "delete", "insert", "summary"}

\* no data-access call in progress
IdleCm ==
    [ pc |-> "idle", op |-> "none", commit |-> FALSE, date |-> 0, end |-> 0,
      item |-> <<>>,
      conn |-> "None", cursor |-> "None", executed |-> FALSE, committed |-> FALSE,
      exc |-> "none", src |-> "", log |-> <<>>, result |-> "none",
      value |-> <<>>, entry |-> <<>> ]

\* line 37-39: conn = None, cursor = None, try; t is the table at entry.  d is
\* the method's date (the start date of a summary), d2 the end date of a
\* summary
cm_enter(op, d, d2, e, t) ==
    [ pc |-> "connect", op |-> op, commit |-> op \in {"insert", "delete"},
      date |-> d, end |-> IF op = "summary" THEN d2 ELSE 0,
      item |-> IF op = "insert" THEN e ELSE <<>>,
      conn |-> "None", cursor |-> "None", executed |-> FALSE, committed |-> FALSE,
      exc |-> "none", src |-> "", log |-> <<>>, result |-> "none",
      value |-> <<>>, entry |-> t ]

\* a driver call that raised mysql.connector.Error: control goes to the
\* except clause
cm_raise(c, call) ==
    [c EXCEPT !.pc = "except", !.exc = "Error", !.src = call,
              !.log = Append(c.log, call)]

\* line 40: conn = mysql.connector.connect(...)
cm_connect(c, ok) ==
    IF ok THEN [c EXCEPT !.pc = "cursor", !.conn = "connected",
                         !.log = Append(c.log, "connect")]
    ELSE cm_raise(c, "connect")

\* line 46: cursor = conn.cursor(dictionary=True)
cm_cursor(c, ok) ==
    IF ok THEN [c EXCEPT !.pc = "body", !.cursor = "open",
                         !.log = Append(c.log, "cursor")]
    ELSE cm_raise(c, "cursor")

\* what the method's statement reads or reports: fetchall(), rowcount,
\* lastrowid; fetched is what the summary statement fetched
cm_value(c, t, lid, fetched) ==
    CASE c.op = "fetch"   -> RowsForDate(t, c.date)
      [] c.op = "delete"  -> Len(RowsForDate(t, c.date))
      [] c.op = "insert"  -> lid + 1
      [] c.op = "summary" -> fetched

\* line 48: the with-block of the method: cursor.execute(query, params) and
\* the read of its result.  out is "ok", "Error" (the driver raises) or
\* "Exception" (anything else raises, which the except clause does not catch)
cm_body(c, out, t, lid, fetched) ==
    CASE out = "ok" ->
           [c EXCEPT !.pc = "commit", !.executed = TRUE,
                     !.value = cm_value(c, t, lid, fetched),
                     !.log = Append(c.log, "execute")]
      [] out = "Error" -> cm_raise(c, "execute")
      [] out = "Exception" ->
           [c EXCEPT !.pc = "finally", !.exc = "Exception", !.src = "execute",
                     !.log = Append(c.log, "execute")]

\* line 49-51: if commit and conn.is_connected(): conn.commit()
cm_commit(c, ok) ==
    IF c.commit /\ c.conn = "connected"
    THEN IF ok THEN [c EXCEPT !.pc = "finally", !.committed = TRUE,
                              !.log = Append(c.log, "commit")]
         ELSE cm_raise(c, "commit")
    ELSE [c EXCEPT !.pc = "finally"]

\* the except clause that re-raises without rolling back
cm_except_no_rollback(c, ok) == [c EXCEPT !.pc = "finally"]

\* line 52-57: except mysql.connector.Error: if commit and conn and
\* conn.is_connected(): conn.rollback(); raise.  When conn.rollback() raises,
\* its error takes the place of the one being handled and goes on to the
\* caller
cm_except(c, ok) ==
    IF c.commit /\ c.conn = "connected"
    THEN IF ok THEN [c EXCEPT !.pc = "finally",
                              !.log = Append(c.log, "rollback")]
         ELSE [c EXCEPT !.pc = "finally", !.exc = "Error", !.src = "rollback",
                        !.log = Append(c.log, "rollback")]
    ELSE [c EXCEPT !.pc = "finally"]

\* the release written after the block instead of in a finally clause: it is
\* skipped when an exception is on its way
cm_release_after_block(c) ==
    IF c.exc # "none"
    THEN [c EXCEPT !.pc = "exit", !.result = "raised"]
    ELSE LET c1 == IF c.cursor # "None"
                   THEN [c EXCEPT !.cursor = "closed",
                                  !.log = Append(c.log, "cursor.close")]
                   ELSE c
             c2 == IF c1.conn = "connected"
                   THEN [c1 EXCEPT !.conn = "closed",
                                   !.log = Append(c1.log, "conn.close")]
                   ELSE c1
         IN  [c2 EXCEPT !.pc = "exit", !.result = "returned"]

\* line 58-63: finally: if cursor: cursor.close(); if conn and
\* conn.is_connected(): conn.close(); then the method returns its value or the
\* pending exception goes on to the caller
cm_finally(c) ==
    LET c1 == IF c.cursor # "None"
              THEN [c EXCEPT !.cursor = "closed",
                             !.log = Append(c.log, "cursor.close")]
              ELSE c
        c2 == IF c1.conn = "connected"
              THEN [c1 EXCEPT !.conn = "closed",
                              !.log = Append(c1.log, "conn.close")]
              ELSE c1
    IN  [c2 EXCEPT !.pc = "exit",
                   !.result = IF c.exc = "none" THEN "returned" ELSE "raised"]

\* the table once the transaction of c is committed
cm_effect(c, t, lid) ==
    CASE c.op = "insert" ->
           Append(t, [ id |-> lid, expense_date |-> c.date,
                       category |-> c.item.category, notes |-> c.item.notes,
                       amount |-> c.item.amount ])
      [] c.op = "delete" -> RowsNotForDate(t, c.date)
      [] OTHER -> t

\* ------------------------------------------------ request handlers (server)

\* db = ExpenseDatabase() inside try/except Exception: db = None
ModuleDb(reachable) ==
    IF ExpenseDatabase(reachable) = "raise"
    THEN "None" ELSE ExpenseDatabase(reachable)

\* the fields the Expense model requires: category: str, notes: str, amount
RequiredFields == {"category", "notes", "amount"}

\* the bound written as ge=0
ValidExpenseGe(e) == RequiredFields \subseteq DOMAIN e /\ e.amount >= 0

\* the texts declared with min_length=1
ValidExpenseNonEmpty(e) ==
    /\ RequiredFields \subseteq DOMAIN e
    /\ e.category # ""
    /\ e.notes # ""
    /\ e.amount > 0

\* Expense: category: str, notes: str, amount: float = Field(gt=0); a str
\* field accepts every text, the empty one included
ValidExpense(e) == RequiredFields \subseteq DOMAIN e /\ e.amount > 0

\* only the first item of the payload validated
ValidBatchFirstOnly(expenses) ==
    expenses = <<>> \/ ValidExpense(expenses[1])

\* expenses: List[Expense]: every item is validated before the handler runs
ValidBatch(expenses) == \A i \in 1..Len(expenses) : ValidExpense(expenses[i])

\* raise HTTPException(status_code, detail)
HTTPException(status_code, detail) ==
    [status |-> status_code, body |-> [detail |-> detail]]

\* the framework's answer to a payload that fails the Expense model
RequestValidationError == HTTPException(422, "validation error")

Unavailable == HTTPException(503, "Database connection is not available.")

\* what a handler hands back: the response, the data-access calls it made (in
\* order, with their arguments) and the storage it leaves behind
Outcome(r, calls, t, lid) ==
    [status |-> r.status, body |-> r.body, calls |-> calls,
     table |-> t, lastId |-> lid]

Call(method, args) == [method |-> method, args |-> args]

\* the routes listed in the body of GET /
Endpoints ==
    "GET /" :> "API information"
    @@ "GET /health" :> "Health check"
    @@ "GET /expenses/{date}" :> "Get expenses for a date"
    @@ "POST /expenses/{date}" :> "Add expenses for a date"
    @@ "DELETE /expenses/{date}" :> "Delete expenses for a date"
    @@ "GET /summary" :>
           "Get expense summary (requires start_date and end_date params)"

root(t, lid) ==
    Outcome([status |-> 200,
             body |-> [name |-> "Expense Manager API", version |-> "1.0.0",
                       status |-> "operational", endpoints |-> Endpoints]],
            <<>>, t, lid)

\* the probe that leaves status 'healthy' when its read fails
health_check_status_kept(dbh, t, lid, today, fault) ==
    IF dbh # "None"
    THEN LET r == fetch_expenses_for_date(t, today, fault)
             c == <<Call("fetch_expenses_for_date", <<today>>)>>
         IN  IF r.raised
             THEN Outcome([status |-> 200,
                           body |-> [status |-> "healthy", database |-> "error"]],
                          c, t, lid)
             ELSE Outcome([status |-> 200,
                           body |-> [status |-> "healthy", database |-> "connected"]],
                          c, t, lid)
    ELSE Outcome([status |-> 200,
                  body |-> [status |-> "unhealthy", database |-> "disconnected"]],
                 <<>>, t, lid)

health_check(dbh, t, lid, today, fault) ==
    IF dbh # "None"
    THEN LET r == fetch_expenses_for_date(t, today, fault)
             c == <<Call("fetch_expenses_for_date", <<today>>)>>
         IN  IF r.raised
             THEN Outcome([status |-> 200,
                           body |-> [status |-> "degraded", database |-> "error"]],
                          c, t, lid)
             ELSE Outcome([status |-> 200,
                           body |-> [status |-> "healthy", database |-> "connected"]],
                          c, t, lid)
    ELSE Outcome([status |-> 200,
                  body |-> [status |-> "unhealthy", database |-> "disconnected"]],
                 <<>>, t, lid)

\* response_model=List[Expense]: each row is echoed as category, notes, amount
ExpenseOf(row) ==
    [category |-> row.category, notes |-> row.notes, amount |-> row.amount]

ExpenseList(rows) == [i \in 1..Len(rows) |-> ExpenseOf(rows[i])]

\* the handler without the `if not db` guard: the call on None raises
\* AttributeError, which the handler's except turns into a 500
get_expenses_for_date_unguarded(dbh, t, lid, expense_date, fault) ==
    LET r == fetch_expenses_for_date(t, expense_date, fault)
    IN  IF dbh = "None" \/ r.raised
        THEN Outcome(HTTPException(500,
               "An internal server error occurred while fetching expenses."),
               <<>>, t, lid)
        ELSE Outcome([status |-> 200, body |-> ExpenseList(r.value)],
                     <<Call("fetch_expenses_for_date", <<expense_date>>)>>,
                     r.table, lid)

get_expenses_for_date(dbh, t, lid, expense_date, fault) ==
    IF dbh = "None" THEN Outcome(Unavailable, <<>>, t, lid)
    ELSE LET r == fetch_expenses_for_date(t, expense_date, fault)
             c == <<Call("fetch_expenses_for_date", <<expense_date>>)>>
         IN  IF r.raised
             THEN Outcome(HTTPException(500,
                    "An internal server error occurred while fetching expenses."),
                    c, r.table, lid)
             ELSE Outcome([status |-> 200, body |-> ExpenseList(r.value)],
                          c, r.table, lid)

\* the loop with the new id put in front of inserted_ids
RECURSIVE InsertLoopPrepend(_, _, _, _, _, _, _, _)
InsertLoopPrepend(t, lid, expense_date, expenses, faults, i, inserted_ids, calls) ==
    IF i > Len(expenses)
    THEN [raised |-> FALSE, err |-> "", inserted_ids |-> inserted_ids,
          calls |-> calls, table |-> t, lastId |-> lid]
    ELSE LET e == expenses[i]
             r == insert_expense(t, lid, expense_date,
                                 e.category, e.notes, e.amount, faults[i])
             c == Append(calls, Call("insert_expense",
                         <<expense_date, e.category, e.notes, e.amount>>))
         IN  IF r.raised
             THEN [raised |-> TRUE, err |-> r.err, inserted_ids |-> inserted_ids,
                   calls |-> c, table |-> r.table, lastId |-> r.lastId]
             ELSE InsertLoopPrepend(r.table, r.lastId, expense_date, expenses,
                                    faults, i + 1, <<r.value>> \o inserted_ids, c)

\* for expense in expenses: inserted_ids.append(db.insert_expense(...)), from
\* item i on; an insert that raises ends the loop
RECURSIVE InsertLoop(_, _, _, _, _, _, _, _)
InsertLoop(t, lid, expense_date, expenses, faults, i, inserted_ids, calls) ==
    IF i > Len(expenses)
    THEN [raised |-> FALSE, err |-> "", inserted_ids |-> inserted_ids,
          calls |-> calls, table |-> t, lastId |-> lid]
    ELSE LET e == expenses[i]
             r == insert_expense(t, lid, expense_date,
                                 e.category, e.notes, e.amount, faults[i])
             c == Append(calls, Call("insert_expense",
                         <<expense_date, e.category, e.notes, e.amount>>))
         IN  IF r.raised
             THEN [raised |-> TRUE, err |-> r.err, inserted_ids |-> inserted_ids,
                   calls |-> c, table |-> r.table, lastId |-> r.lastId]
             ELSE InsertLoop(r.table, r.lastId, expense_date, expenses, faults,
                             i + 1, Append(inserted_ids, r.value), c)

\* line 162-170: what the handler answers once its loop l has ended
add_expenses_result(l, expense_date, expenses) ==
    IF l.raised
    THEN Outcome(HTTPException(500,
           "An internal server error occurred while adding expenses."),
           l.calls, l.table, l.lastId)
    ELSE Outcome([status |-> 200,
                  body |-> [message |-> [text |-> "Successfully added",
                                         count |-> Len(expenses),
                                         date |-> expense_date],
                            inserted_count |-> Len(l.inserted_ids),
                            inserted_ids |-> l.inserted_ids]],
                 l.calls, l.table, l.lastId)

\* the batch undone as a whole when one insert raises
add_expenses_all_or_nothing(dbh, t, lid, expense_date, expenses, faults) ==
    IF ~ValidBatch(expenses) THEN Outcome(RequestValidationError, <<>>, t, lid)
    ELSE IF dbh = "None" THEN Outcome(Unavailable, <<>>, t, lid)
    ELSE LET l == InsertLoop(t, lid, expense_date, expenses, faults, 1, <<>>, <<>>)
         IN  IF l.raised
             THEN Outcome(HTTPException(500,
                    "An internal server error occurred while adding expenses."),
                    l.calls, t, l.lastId)
             ELSE Outcome([status |-> 200,
                           body |-> [message |-> [text |-> "Successfully added",
                                                  count |-> Len(expenses),
                                                  date |-> expense_date],
                                     inserted_count |-> Len(l.inserted_ids),
                                     inserted_ids |-> l.inserted_ids]],
                          l.calls, l.table, l.lastId)

add_expenses_for_date(dbh, t, lid, expense_date, expenses, faults) ==
    IF ~ValidBatch(expenses) THEN Outcome(RequestValidationError, <<>>, t, lid)
    ELSE IF dbh = "None" THEN Outcome(Unavailable, <<>>, t, lid)
    ELSE LET l == InsertLoop(t, lid, expense_date, expenses, faults, 1, <<>>, <<>>)
         IN  IF l.raised
             THEN Outcome(HTTPException(500,
                    "An internal server error occurred while adding expenses."),
                    l.calls, l.table, l.lastId)
             ELSE Outcome([status |-> 200,
                           body |-> [message |-> [text |-> "Successfully added",
                                                  count |-> Len(expenses),
                                                  date |-> expense_date],
                                     inserted_count |-> Len(l.inserted_ids),
                                     inserted_ids |-> l.inserted_ids]],
                          l.calls, l.table, l.lastId)

\* the handler with the driver's error text put into the detail
delete_expenses_for_date_leaky(dbh, t, lid, expense_date, fault) ==
    IF dbh = "None" THEN Outcome(Unavailable, <<>>, t, lid)
    ELSE LET r == delete_expenses_for_date_db(t, expense_date, fault)
             c == <<Call("delete_expenses_for_date", <<expense_date>>)>>
         IN  IF r.raised
             THEN Outcome(HTTPException(500, r.err), c, r.table, lid)
             ELSE Outcome([status |-> 200,
                           body |-> [message |-> [text |-> "Successfully deleted",
                                                  count |-> r.value,
                                                  date |-> expense_date],
                                     deleted_count |-> r.value]],
                          c, r.table, lid)

\* lines 182-190: what the handler makes of the call r that returned the
\* row count or raised
delete_expenses_result(r, lid, expense_date) ==
    LET c == <<Call("delete_expenses_for_date", <<expense_date>>)>>
    IN  IF r.raised
        THEN Outcome(HTTPException(500,
               "An internal server error occurred while deleting expenses."),
               c, r.table, lid)
        ELSE Outcome([status |-> 200,
                      body |-> [message |-> [text |-> "Successfully deleted",
                                             count |-> r.value,
                                             date |-> expense_date],
                                deleted_count |-> r.value]],
                     c, r.table, lid)

delete_expenses_for_date(dbh, t, lid, expense_date, fault) ==
    IF dbh = "None" THEN Outcome(Unavailable, <<>>, t, lid)
    ELSE delete_expenses_result(
             delete_expenses_for_date_db(t, expense_date, fault),
             lid, expense_date)

\* the handler with the range test the wrong way round
get_expense_summary_swapped(dbh, t, lid, start_date, end_date, fault, fetched) ==
    IF dbh = "None" THEN Outcome(Unavailable, <<>>, t, lid)
    ELSE IF start_date < end_date
    THEN Outcome(HTTPException(400, "The start_date cannot be after the end_date."),
                 <<>>, t, lid)
    ELSE LET r == fetch_expense_summary(t, start_date, end_date, fault, fetched)
             c == <<Call("fetch_expense_summary", <<start_date, end_date>>)>>
         IN  IF r.raised
             THEN Outcome(HTTPException(500,
                    "An internal server error occurred while fetching the summary."),
                    c, r.table, lid)
             ELSE Outcome([status |-> 200, body |-> r.value], c, r.table, lid)

get_expense_summary(dbh, t, lid, start_date, end_date, fault, fetched) ==
    IF dbh = "None" THEN Outcome(Unavailable, <<>>, t, lid)
    ELSE IF start_date > end_date
    THEN Outcome(HTTPException(400, "The start_date cannot be after the end_date."),
                 <<>>, t, lid)
    ELSE LET r == fetch_expense_summary(t, start_date, end_date, fault, fetched)
             c == <<Call("fetch_expense_summary", <<start_date, end_date>>)>>
         IN  IF r.raised
             THEN Outcome(HTTPException(500,
                    "An internal server error occurred while fetching the summary."),
                    c, r.table, lid)
             ELSE Outcome([status |-> 200, body |-> r.value], c, r.table, lid)

\* ------------------------------------------------------------ state machine

Methods(calls) == [i \in 1..Len(calls) |-> calls[i].method]

\* the last exchange as the client and the call log saw it
Exchange(op, o) ==
    [op |-> op, status |-> o.status, body |-> o.body, calls |-> Methods(o.calls)]

\* no response was sent in the step just taken
NoResponse == [op |-> "none", status |-> 0, body |-> <<>>, calls |-> <<>>]

\* no create-batch request in its loop
NoRequest == <<>>

\* a create-batch is kept while it runs and in the state its answer is given
Rest(reqs) == SelectSeq(reqs, LAMBDA r : r.state = "running")

\* the ids that the create-batches reqs have yet to draw from AUTO_INCREMENT
RECURSIVE Reserved(_)
Reserved(reqs) ==
    IF reqs = <<>> THEN 0
    ELSE LET r == Head(reqs)
         IN  Len(r.expenses) - Len(r.inserted_ids)
                 - (IF r.pc = "execute" THEN 0 ELSE 1)
                 + Reserved(Tail(reqs))

\* the items of request r whose rows table t holds, under the ids collected
\* and the id of the insert under way
Shown(r, t) ==
    LET k   == Len(r.inserted_ids)
        ids == { t[j].id : j \in 1..Len(t) }
    IN  { i \in 1..k : r.inserted_ids[i] \in ids }
            \cup (IF r.id # 0 /\ r.id \in ids THEN {k + 1} ELSE {})

\* a list for the date of request r answered from table t shows a proper
\* prefix of the batch: its first j items, 0 < j < N, and none of the later
SawPrefix(r, t) ==
    \E j \in 1..(Len(r.expenses) - 1) : Shown(r, t) = 1..j

\* a list for the date of request r answered from table t shows a part of the
\* batch: some of its items and not all of them
SawPart(r, t) ==
    /\ Shown(r, t) # {}
    /\ Shown(r, t) # 1..Len(r.expenses)

\* a handler that makes at most one data-access call runs as one step
Serve(op, outcome) ==
    \E o \in {outcome} :
        /\ table' = o.table
        /\ lastId' = o.lastId
        /\ resp' = Exchange(op, o)
        /\ inflight' = Rest(inflight)
        /\ UNCHANGED <<db, cm, deleting>>

Init ==
    /\ \E reachable \in BOOLEAN : db = ModuleDb(reachable)
    /\ table = <<>>
    /\ lastId = 0
    /\ resp = NoResponse
    /\ cm = IdleCm
    /\ inflight = NoRequest
    /\ deleting = <<>>

GetRoot == Serve("root", root(table, lastId))

GetHealth ==
    \E today \in Dates, fault \in Faults :
        Serve("health", health_check(db, table, lastId, today, fault))

\* GET /expenses/{date}
GetExpenses ==
    \E d \in Dates, fault \in Faults :
        \E o \in {get_expenses_for_date(db, table, lastId, d, fault)} :
            /\ table' = o.table
            /\ resp' = Exchange("list", o)
            /\ inflight' =
                  [ b \in DOMAIN Rest(inflight) |->
                      LET r == Rest(inflight)[b]
                      IN  IF d = r.date /\ o.status = 200
                          THEN [r EXCEPT
                                  !.seen = @ \/ SawPart(r, table),
                                  !.prefix = @ \/ SawPrefix(r, table)]
                          ELSE r ]
            /\ UNCHANGED <<db, lastId, cm, deleting>>

\* the request that POST /expenses/{date} with a valid payload makes: it is
\* about to call insert_expense for its first item.  pc is the driver call
\* its insert makes next, id the id drawn by the insert under way (0 between
\* inserts), committed whether that insert's commit ran; seen and prefix
\* record what the lists for its date showed while it was in its loop: a
\* part of the batch, and a proper prefix of it
NewRequest(d, expenses) ==
    [ state |-> "running", date |-> d, expenses |-> expenses,
      inserted_ids |-> <<>>, calls |-> <<>>, pc |-> "execute", id |-> 0,
      committed |-> FALSE, seen |-> FALSE, prefix |-> FALSE ]

\* the item that request r is inserting, and its row under the id drawn
NextItem(r) == r.expenses[Len(r.inserted_ids) + 1]

NextRow(r) ==
    [ id |-> r.id, expense_date |-> r.date, category |-> NextItem(r).category,
      notes |-> NextItem(r).notes, amount |-> NextItem(r).amount ]

\* lines 168-170: the call that request r made raised err; the request ends
\* with the 500 answer
Raise(reqs, b, r, err) ==
    /\ inflight' = [reqs EXCEPT ![b] = [r EXCEPT !.state = "failed"]]
    /\ resp' = Exchange("add",
                 add_expenses_result(
                     [ raised |-> TRUE, err |-> err,
                       inserted_ids |-> r.inserted_ids, calls |-> r.calls,
                       table |-> table', lastId |-> lastId' ],
                     r.date, r.expenses))

\* POST /expenses/{date} arrives.  A request that makes no data-access call (a
\* payload that fails validation, no storage handle, an empty batch) is
\* answered at once.  Any other request enters its loop, beside the requests
\* in theirs; it is admitted while fewer than batches requests are in their
\* loops and the ids that they and its own items will draw stay within MaxId.
Arrive(d, expenses, batches) ==
    IF ~ValidBatch(expenses) \/ db = "None" \/ expenses = <<>>
    THEN Serve("add", add_expenses_for_date(db, table, lastId, d, expenses,
                                            NoFaults(Len(expenses))))
    ELSE /\ Len(Rest(inflight)) < batches
         /\ lastId + Reserved(Rest(inflight)) + Len(expenses) <= MaxId
         /\ inflight' = Append(Rest(inflight), NewRequest(d, expenses))
         /\ resp' = NoResponse
         /\ UNCHANGED <<db, table, lastId, cm, deleting>>

PostExpenses ==
    \E d \in Dates, expenses \in Batches : Arrive(d, expenses, MaxAlone)

\* a request in its loop calls insert_expense for its next item: connect,
\* cursor, execute.  The INSERT draws its id; a call that raises here ends the
\* request.
InsertExecute ==
    \E b \in DOMAIN Rest(inflight), fault \in ExecuteFaults :
        LET reqs == Rest(inflight)
            e    == NextItem(reqs[b])
            r    == [reqs[b] EXCEPT !.calls =
                        Append(@, Call("insert_expense",
                                       <<reqs[b].date, e.category, e.notes,
                                         e.amount>>))]
        IN  /\ r.pc = "execute"
            /\ \E x \in {insert_execute(lastId, fault)} :
                  /\ lastId' = x.lastId
                  /\ table' = table
                  /\ IF x.raised THEN Raise(reqs, b, r, x.err)
                     ELSE /\ inflight' = [reqs EXCEPT ![b] =
                                 [r EXCEPT !.pc = "commit", !.id = x.value]]
                          /\ resp' = NoResponse
            /\ UNCHANGED <<db, cm, deleting>>

\* the with-block of the call ends: the commit of the INSERT that executed
InsertCommit ==
    \E b \in DOMAIN Rest(inflight), fault \in CommitFaults :
        LET reqs == Rest(inflight)
            r    == reqs[b]
        IN  /\ r.pc = "commit"
            /\ \E y \in {insert_commit(table, NextRow(r), fault)} :
                  /\ table' = y.table
                  /\ lastId' = lastId
                  /\ IF y.raised THEN Raise(reqs, b, r, y.err)
                     ELSE /\ inflight' = [reqs EXCEPT ![b] =
                                 [r EXCEPT !.pc = "return",
                                           !.committed = y.committed]]
                          /\ resp' = NoResponse
            /\ UNCHANGED <<db, cm, deleting>>

\* the call returns cursor.lastrowid, the handler appends it to inserted_ids
\* and goes on with the next item, or answers 200 after the last
InsertReturn ==
    \E b \in DOMAIN Rest(inflight) :
        LET reqs == Rest(inflight)
            r    == [reqs[b] EXCEPT !.inserted_ids = Append(@, reqs[b].id),
                                    !.id = 0, !.committed = FALSE,
                                    !.pc = "execute"]
        IN  /\ reqs[b].pc = "return"
            /\ IF Len(r.inserted_ids) = Len(r.expenses)
               THEN /\ inflight' = [reqs EXCEPT ![b] = [r EXCEPT !.state = "done"]]
                    /\ resp' = Exchange("add",
                                 add_expenses_result(
                                     [ raised |-> FALSE, err |-> "",
                                       inserted_ids |-> r.inserted_ids,
                                       calls |-> r.calls, table |-> table,
                                       lastId |-> lastId ],
                                     r.date, r.expenses))
               ELSE /\ inflight' = [reqs EXCEPT ![b] = r]
                    /\ resp' = NoResponse
            /\ UNCHANGED <<db, table, lastId, cm, deleting>>

\* DELETE /expenses/{date} arrives and, with a storage handle, calls
\* delete_expenses_for_date: connect, cursor, execute.  The DELETE matches
\* the rows committed by now; a call that raises here is answered 500.  It is
\* admitted while fewer than MaxDeletes requests hold an uncommitted DELETE.
DeleteExpenses ==
    \E d \in Dates, fault \in ExecuteFaults :
        IF db = "None"
        THEN Serve("delete",
                   delete_expenses_for_date(db, table, lastId, d, fault))
        ELSE /\ Len(deleting) < MaxDeletes
             /\ \E x \in {delete_execute(table, d, fault)} :
                   IF x.raised
                   THEN /\ resp' = Exchange("delete",
                                    delete_expenses_result(
                                        [ raised |-> TRUE, err |-> x.err,
                                          value |-> 0, table |-> table ],
                                        lastId, d))
                        /\ deleting' = deleting
                   ELSE /\ resp' = NoResponse
                        /\ deleting' = Append(deleting,
                                              [date |-> d, ids |-> x.ids])
             /\ inflight' = Rest(inflight)
             /\ UNCHANGED <<db, table, lastId, cm>>

\* the with-block of a delete_expenses_for_date call ends: the commit of the
\* DELETE that executed, then the handler's answer with cursor.rowcount
DeleteCommit ==
    \E b \in DOMAIN deleting, fault \in CommitFaults :
        \E y \in {delete_commit(table, deleting[b].ids, fault)} :
            /\ table' = y.table
            /\ resp' = Exchange("delete",
                         delete_expenses_result(
                             [ raised |-> y.raised, err |-> y.err,
                               value |-> Cardinality(deleting[b].ids),
                               table |-> y.table ],
                             lastId, deleting[b].date))
            /\ deleting' = SubSeq(deleting, 1, b - 1)
                               \o SubSeq(deleting, b + 1, Len(deleting))
            /\ inflight' = Rest(inflight)
            /\ UNCHANGED <<db, lastId, cm>>

GetSummary ==
    \E s \in Dates, e \in Dates, fault \in Faults :
        \E fetched \in SummaryRows(table, s, e) :
            Serve("summary",
                  get_expense_summary(db, table, lastId, s, e, fault, fetched))

Next ==
    \/ GetRoot
    \/ GetHealth
    \/ GetExpenses
    \/ PostExpenses
    \/ InsertExecute
    \/ InsertCommit
    \/ InsertReturn
    \/ DeleteExpenses
    \/ DeleteCommit
    \/ GetSummary

\* the requests of several workers, interleaved at the driver calls of a
\* create-batch
Spec == Init /\ [][Next]_vars

\* the payloads that pass validation
ValidBatches == { expenses \in Batches : ValidBatch(expenses) }

\* POST /expenses/{date} with a payload that passes validation, while other
\* create-batches are in their loops
PostBeside ==
    \E d \in Dates, expenses \in ValidBatches :
        Arrive(d, expenses, MaxBatches)

NextBatches ==
    \/ PostBeside
    \/ InsertExecute
    \/ InsertCommit
    \/ InsertReturn
    \/ DeleteExpenses
    \/ DeleteCommit

\* create-batches of several workers beside one another, with deletes
\* between their driver calls
SpecBatches == Init /\ [][NextBatches]_vars

\* the rows of slots i..MaxId, in the order of their ids
RECURSIVE RowsFrom(_, _)
RowsFrom(slots, i) ==
    IF i > MaxId THEN <<>>
    ELSE (IF slots[i] = <<>> THEN <<>>
          ELSE << [ id |-> i, expense_date |-> slots[i][1],
                    category |-> slots[i][2].category,
                    notes |-> slots[i][2].notes,
                    amount |-> slots[i][2].amount ] >>)
         \o RowsFrom(slots, i + 1)

\* the tables that requests served earlier can have left: under each id no
\* row, or the row of a valid item for some date
StoredTables ==
    { RowsFrom(slots, 1) :
        slots \in [1..MaxId -> {<<>>} \cup (Dates \X ValidItems)] }

\* the service with its module-level handle replaced by None
InitNoHandle ==
    /\ db = "None"
    /\ table \in StoredTables
    /\ lastId \in { n \in 0..MaxId : \A i \in 1..Len(table) : table[i].id <= n }
    /\ resp = NoResponse
    /\ cm = IdleCm
    /\ inflight = NoRequest
    /\ deleting = <<>>

NextNoHandle ==
    \/ GetRoot
    \/ GetHealth
    \/ GetExpenses
    \/ PostExpenses
    \/ DeleteExpenses
    \/ GetSummary

SpecNoHandle == InitNoHandle /\ [][NextNoHandle]_vars

\* POST /expenses/{date} with a payload of text items
PostTextExpenses ==
    \E d \in Dates, expenses \in TextBatches : Arrive(d, expenses, MaxAlone)

NextText ==
    \/ PostTextExpenses
    \/ InsertExecute
    \/ InsertCommit
    \/ InsertReturn
    \/ GetExpenses
    \/ DeleteExpenses
    \/ DeleteCommit
    \/ GetSummary

\* the service fed with payloads that differ in their texts
SpecText == Init /\ [][NextText]_vars

\* ------------------------------------ one data-access call, step by step

\* a data-access method is called on the handle
Enter ==
    /\ db # "None"
    /\ cm.pc \in {"idle", "exit"}
    /\ \E op \in Operations, d \in Dates, d2 \in Dates, e \in ValidItems :
          /\ op = "insert" => lastId < MaxId
          /\ cm' = cm_enter(op, d, d2, e, table)
    /\ UNCHANGED <<db, table, lastId, resp, inflight, deleting>>

Connect ==
    /\ cm.pc = "connect"
    /\ \E ok \in BOOLEAN : cm' = cm_connect(cm, ok)
    /\ UNCHANGED <<db, table, lastId, resp, inflight, deleting>>

\* on a connection that is lost every driver call raises
CreateCursor ==
    /\ cm.pc = "cursor"
    /\ \E ok \in BOOLEAN :
          /\ cm.conn = "lost" => ~ok
          /\ cm' = cm_cursor(cm, ok)
    /\ UNCHANGED <<db, table, lastId, resp, inflight, deleting>>

\* an INSERT that ran has taken the next AUTO_INCREMENT value
Body ==
    /\ cm.pc = "body"
    /\ \E out \in {"ok", "Error", "Exception"} :
          /\ cm.conn = "lost" => out # "ok"
          /\ \E fetched \in IF cm.op = "summary"
                             THEN SummaryRows(table, cm.date, cm.end)
                             ELSE {<<>>} :
                 cm' = cm_body(cm, out, table, lastId, fetched)
          /\ lastId' = IF cm.op = "insert" /\ out = "ok" THEN lastId + 1
                       ELSE lastId
    /\ UNCHANGED <<db, table, resp, inflight, deleting>>

Commit ==
    /\ cm.pc = "commit"
    /\ \E ok \in BOOLEAN :
          /\ cm.conn = "lost" => ~ok
          /\ cm' = cm_commit(cm, ok)
          /\ table' = IF cm'.committed THEN cm_effect(cm, table, lastId)
                      ELSE table
    /\ UNCHANGED <<db, lastId, resp, inflight, deleting>>

\* conn.rollback() returns or raises
Except ==
    /\ cm.pc = "except"
    /\ \E ok \in BOOLEAN : cm' = cm_except(cm, ok)
    /\ UNCHANGED <<db, table, lastId, resp, inflight, deleting>>

Finally ==
    /\ cm.pc = "finally"
    /\ cm' = cm_finally(cm)
    /\ UNCHANGED <<db, table, lastId, resp, inflight, deleting>>

\* the connection breaks while the call is under way
LoseConnection ==
    /\ cm.pc \in {"cursor", "body", "commit", "except", "finally"}
    /\ cm.conn = "connected"
    /\ cm' = [cm EXCEPT !.conn = "lost"]
    /\ UNCHANGED <<db, table, lastId, resp, inflight, deleting>>

NextCursor ==
    \/ Enter
    \/ Connect
    \/ CreateCursor
    \/ Body
    \/ Commit
    \/ Except
    \/ Finally
    \/ LoseConnection

\* data-access calls made one after the other
SpecCursor == Init /\ [][NextCursor]_vars

\* ------------------------------------------------------------------ claims

\* the faults under which a data-access method raises: a read never commits
RaisingFaults(commit) ==
    IF commit THEN {"connect", "execute", "commit"}
    ELSE {"connect", "execute"}

\* the faults under which a data-access method returns
ReturningFaults(commit) == Faults \ RaisingFaults(commit)

HasNonPositive(expenses) == \E i \in 1..Len(expenses) : expenses[i].amount <= 0

\* the row that item i of a batch for date d becomes when ids start after lid
RowOfItem(lid, d, expenses, i) ==
    [ id |-> lid + i, expense_date |-> d, category |-> expenses[i].category,
      notes |-> expenses[i].notes, amount |-> expenses[i].amount ]

\* a fault plan in which call k draws fault f and no other call draws any
FaultAt(n, k, f) == [i \in 1..n |-> IF i = k THEN f ELSE "none"]

RowSet(t) == { t[i] : i \in 1..Len(t) }

\* the create-batch requests in their loops or just answered
Requests == { inflight[b] : b \in DOMAIN inflight }

\* the row of item i of create-batch r, under the id collected for it
BatchRow(r, i) ==
    [ id |-> r.inserted_ids[i], expense_date |-> r.date,
      category |-> r.expenses[i].category,
      notes |-> r.expenses[i].notes,
      amount |-> r.expenses[i].amount ]

\* the calls that create-batch r makes for its first n items
CallsFor(r, n) ==
    [ i \in 1..n |->
        Call("insert_expense",
             <<r.date, r.expenses[i].category, r.expenses[i].notes,
               r.expenses[i].amount>>) ]

\* the ids that create-batch r has drawn: the ones collected and the one of
\* the insert under way
IdsOf(r) ==
    { r.inserted_ids[i] : i \in 1..Len(r.inserted_ids) }
        \cup (IF r.id = 0 THEN {} ELSE {r.id})

\* the ids of create-batch r are ids handed out, in the order of its items,
\* and a record persisted under one of them is the record of that item
IdsFollowItems(r) ==
    LET ids == r.inserted_ids
        k   == Len(ids)
    IN  /\ k <= Len(r.expenses)
        /\ IdsOf(r) \subseteq 1..lastId
        /\ \A i \in 1..k : \A j \in 1..k : i < j => ids[i] < ids[j]
        /\ r.id # 0 => /\ k < Len(r.expenses)
                       /\ \A i \in 1..k : ids[i] < r.id
        /\ \A x \in RowSet(table) :
             /\ \A i \in 1..k : x.id = ids[i] => x = BatchRow(r, i)
             /\ (r.id # 0 /\ x.id = r.id) => x = NextRow(r)

\* the handles that server.db can hold
Handles == {"None", "ExpenseDatabase"}

\* C1: a create-batch whose payload holds an item with amount <= 0, at any
\* position and beside any valid items, is rejected with a client error (4xx),
\* calls insert_expense zero times and leaves the persisted records as they
\* were; this in every reachable state, with or without a storage handle.
C1_InvalidBatchRejected ==
    \A d \in Dates : \A expenses \in Batches :
        HasNonPositive(expenses) =>
            \A dbh \in Handles :
            \A o \in {add_expenses_for_date(dbh, table, lastId, d, expenses,
                                             NoFaults(Len(expenses)))} :
                /\ o.status \in 400..499
                /\ o.calls = <<>>
                /\ o.table = table

\* a batch was rejected by validation while records were persisted, and they
\* are still there
C1_Witness ==
    /\ resp.op = "add"
    /\ resp.status = 422
    /\ resp.calls = <<>>
    /\ table # <<>>

\* C2: in every reachable state every persisted expense record has amount > 0.
C2_AmountsPositive ==
    \A i \in 1..Len(table) : table[i].amount > 0

\* records are persisted and the last request was a rejected create-batch
C2_Witness ==
    /\ Len(table) >= 2
    /\ resp.op = "add"
    /\ resp.status = 422

\* The states of C3.  A valid batch of N >= 0 items whose inserts all return,
\* served with no other request in between: insert_expense is called exactly N
\* times, call i with item i, and the response is 200 with inserted_count = N
\* and N inserted_ids, the i-th being the next AUTO_INCREMENT value, under
\* which item i is persisted when its commit ran.  A batch whose loop runs
\* among the requests of other workers: the ids it has drawn are ids handed
\* out, in the order of its items, no other create-batch holds one of them, a
\* record persisted under one of them is the record of that item, its calls
\* are those for its items in submission order, and once N inserts have
\* returned it is answered 200 with inserted_count = N and the N ids.
C3_Answered ==
    /\ Rest(inflight) = <<>> =>
        \A d \in Dates : \A expenses \in Batches :
            ValidBatch(expenses) =>
                \A faults \in [1..Len(expenses) -> ReturningFaults(TRUE)] :
                    \A o \in {add_expenses_for_date(db, table, lastId, d,
                                                     expenses, faults)} :
                    LET N == Len(expenses)
                    IN  /\ o.status = 200
                        /\ Len(o.calls) = N
                        /\ \A i \in 1..N :
                             o.calls[i] = Call("insert_expense",
                                               <<d, expenses[i].category,
                                                 expenses[i].notes,
                                                 expenses[i].amount>>)
                        /\ o.body.inserted_count = N
                        /\ Len(o.body.inserted_ids) = N
                        /\ \A i \in 1..N :
                             /\ o.body.inserted_ids[i] = lastId + i
                             /\ faults[i] = "none" =>
                                  \E j \in 1..Len(o.table) :
                                      o.table[j] = RowOfItem(lastId, d, expenses, i)
    /\ \A b \in DOMAIN inflight :
        LET r == inflight[b]
            N == Len(r.expenses)
        IN  /\ IdsFollowItems(r)
            /\ r.calls = CallsFor(r, Len(r.calls))
            /\ Len(r.inserted_ids) <= Len(r.calls)
            /\ Len(r.calls) <= Len(r.inserted_ids) + 1
            /\ \A c \in DOMAIN inflight :
                 c # b => IdsOf(r) \cap IdsOf(inflight[c]) = {}
            /\ r.state = "done" =>
                 /\ resp.op = "add"
                 /\ resp.status = 200
                 /\ resp.calls = [i \in 1..N |-> "insert_expense"]
                 /\ Len(r.calls) = N
                 /\ resp.body.inserted_count = N
                 /\ resp.body.inserted_ids = r.inserted_ids
                 /\ Len(resp.body.inserted_ids) = N

\* The steps of C3.  The id that a create-batch holds for the insert under
\* way is the one its INSERT drew, the next AUTO_INCREMENT value, in the step
\* that made the call for its next item; the id it appends to inserted_ids is
\* that id, appended as the call returns; payload and date stay as submitted.
IdDrawnForItem ==
    \A b \in DOMAIN Rest(inflight) :
        LET old == Rest(inflight)[b]
            new == inflight'[b]
        IN  /\ new.expenses = old.expenses
            /\ new.date = old.date
            /\ new.inserted_ids # old.inserted_ids =>
                 /\ old.pc = "return"
                 /\ new.inserted_ids = Append(old.inserted_ids, old.id)
            /\ (new.id # old.id /\ new.id # 0) =>
                 /\ old.pc = "execute"
                 /\ lastId' = lastId + 1
                 /\ new.id = lastId'
                 /\ new.calls = CallsFor(old, Len(old.inserted_ids) + 1)
            /\ new.calls # old.calls => old.pc = "execute"

\* C3: for a valid batch of N >= 0 items whose inserts all succeed,
\* insert_expense is called exactly N times in submission order and the
\* response has inserted_count = N and N inserted_ids, the i-th being the id
\* generated for item i: in every state C3_Answered holds, and in every step
\* the id a create-batch collects is the one the INSERT of its item drew.
C3_IdsInSubmissionOrder == [](C3_Answered) /\ [][IdDrawnForItem]_vars

\* a batch of two items was answered with the ids 1 and 3 and both its
\* records are persisted, while the create-batch that drew id 2 between its
\* inserts is still in its loop
C3_Witness ==
    /\ resp.op = "add"
    /\ resp.status = 200
    /\ resp.body.inserted_ids = <<1, 3>>
    /\ resp.calls = <<"insert_expense", "insert_expense">>
    /\ \E b \in DOMAIN inflight : \E c \in DOMAIN inflight :
          /\ inflight[b].state = "done"
          /\ BatchRow(inflight[b], 1) \in RowSet(table)
          /\ BatchRow(inflight[b], 2) \in RowSet(table)
          /\ inflight[c].state = "running"
          /\ inflight[c].id = 2

\* The states of C4.  When insert k of a valid batch of N items raises after
\* inserts 1..k-1 committed, exactly those k-1 records are added to the
\* persisted ones, item k and the items after it are not persisted,
\* insert_expense was called k times and no more, and the answer is a server
\* error (500) that carries a detail and no inserted ids; this of a batch
\* served with no other request in between.  Of a batch whose loop ran among
\* the requests of other workers: it is answered 500 with a detail and no
\* inserted ids after k calls, k - 1 of which returned; no record is
\* persisted under the id that the failing insert drew; a record persisted
\* under the id of an earlier insert is that item's record.
C4_RequestFailed ==
    /\ Rest(inflight) = <<>> =>
        \A d \in Dates : \A expenses \in Batches :
            ValidBatch(expenses) =>
                \A k \in 1..Len(expenses) : \A f \in RaisingFaults(TRUE) :
                    \A o \in {add_expenses_for_date(db, table, lastId, d, expenses,
                                                     FaultAt(Len(expenses), k, f))} :
                        /\ o.status = 500
                        /\ DOMAIN o.body = {"detail"}
                        /\ Len(o.calls) = k
                        /\ o.table = table \o
                             [i \in 1..(k - 1) |-> RowOfItem(lastId, d, expenses, i)]
    /\ \A r \in Requests :
        r.state = "failed" =>
            LET k == Len(r.inserted_ids) + 1
            IN  /\ resp.op = "add"
                /\ resp.status = 500
                /\ DOMAIN resp.body = {"detail"}
                /\ k <= Len(r.expenses)
                /\ Len(resp.calls) = k
                /\ r.calls = CallsFor(r, k)
                /\ IdsFollowItems(r)
                /\ \A x \in RowSet(table) : x.id # r.id

\* The steps of C4.  The step in which a call of a create-batch raises
\* changes no persisted record; the request that was answered makes no
\* further step; and a persisted record leaves the table in no other way than
\* by the commit of a delete-for-date, answered 200, which removes records
\* of its date that its DELETE matched.
FailureKeepsRows ==
    /\ (\E b \in DOMAIN inflight' : inflight'[b].state = "failed") =>
           table' = table
    /\ \A b \in DOMAIN inflight' :
           inflight'[b].state # "running" =>
               /\ b \in DOMAIN Rest(inflight)
               /\ Len(inflight') = Len(Rest(inflight))
    /\ LET removed == RowSet(table) \ RowSet(table')
       IN  removed # {} =>
               /\ resp'.op = "delete"
               /\ resp'.status = 200
               /\ \E b \in DOMAIN deleting :
                      /\ removed = { x \in RowSet(table) :
                                       x.id \in deleting[b].ids }
                      /\ \A x \in removed : x.expense_date = deleting[b].date
                      /\ resp'.body.deleted_count
                             = Cardinality(deleting[b].ids)
                      /\ Len(deleting') = Len(deleting) - 1

\* C4: when insert k of a valid batch of N items raises after inserts
\* 1..k-1 committed, those k-1 records stay persisted (none is rolled back),
\* item k and the items after it are not persisted, no further insert is made
\* and the answer is a server error (500) without inserted ids: in every state
\* C4_RequestFailed holds, and in every step FailureKeepsRows.
C4_PartialBatchKept == [](C4_RequestFailed) /\ [][FailureKeepsRows]_vars

\* the commit of the second insert of a batch raised: the answer is 500 after
\* two calls, the first item's record is persisted and none under the id the
\* second insert drew, while another create-batch is in its loop
C4_Witness ==
    /\ resp.op = "add"
    /\ resp.status = 500
    /\ resp.calls = <<"insert_expense", "insert_expense">>
    /\ \E b \in DOMAIN inflight : \E c \in DOMAIN inflight :
          /\ inflight[b].state = "failed"
          /\ inflight[b].id # 0
          /\ BatchRow(inflight[b], 1) \in RowSet(table)
          /\ inflight[c].state = "running"

\* C5: every summary request with start_date > end_date is answered 400
\* without a call to fetch_expense_summary, in every reachable state.
C5_AlwaysBadRequest ==
    \A s \in Dates : \A e \in Dates : \A f \in Faults :
        s > e =>
            \A fetched \in SummaryRows(table, s, e) :
            \A o \in {get_expense_summary(db, table, lastId, s, e, f,
                                          fetched)} :
                /\ o.status = 400
                /\ o.calls = <<>>

\* a summary request was answered 400 and made no data-access call
C5_Witness ==
    /\ resp.op = "summary"
    /\ resp.status = 400
    /\ resp.calls = <<>>
    /\ table # <<>>

\* C6: when the storage handle is absent, list-for-date, create-batch (of a
\* valid payload), delete-for-date and summary each answer 503, make no
\* data-access call and leave the persisted records unchanged.
C6_NoHandleUnavailable ==
    db = "None" =>
        /\ \A d \in Dates : \A f \in Faults :
             /\ \A o \in {get_expenses_for_date(db, table, lastId, d, f)} :
                    o.status = 503 /\ o.calls = <<>> /\ o.table = table
             /\ \A o \in {delete_expenses_for_date(db, table, lastId, d, f)} :
                    o.status = 503 /\ o.calls = <<>> /\ o.table = table
        /\ \A s \in Dates : \A e \in Dates : \A f \in Faults :
             \A fetched \in SummaryRows(table, s, e) :
             \A o \in {get_expense_summary(db, table, lastId, s, e, f,
                                           fetched)} :
                 o.status = 503 /\ o.calls = <<>> /\ o.table = table
        /\ \A d \in Dates : \A inp \in AddInputs :
             ValidBatch(inp.expenses) =>
                 \A o \in {add_expenses_for_date(db, table, lastId, d,
                                                  inp.expenses, inp.faults)} :
                     o.status = 503 /\ o.calls = <<>> /\ o.table = table

\* without a handle, a request was answered 503 with no data-access call
C6_Witness ==
    /\ db = "None"
    /\ resp.op \in {"list", "add", "delete", "summary"}
    /\ resp.status = 503
    /\ resp.calls = <<>>

\* C7 as claimed: with the handle a startup leaves when the storage server is
\* not reachable, and connections still failing, list, create-batch, delete
\* and summary answer 503 and the health probe reports 'unhealthy'.
C7_UnreachableAtStartup ==
    db = ModuleDb(FALSE) =>
        \A d \in Dates :
            /\ get_expenses_for_date(db, table, lastId, d, "connect").status = 503
            /\ delete_expenses_for_date(db, table, lastId, d, "connect").status = 503
            /\ \A fetched \in SummaryRows(table, d, d) :
                 get_expense_summary(db, table, lastId, d, d, "connect",
                                     fetched).status = 503
            /\ \A e \in Items :
                 ValidExpense(e) =>
                     add_expenses_for_date(db, table, lastId, d, <<e>>,
                                           <<"connect">>).status = 503
            /\ health_check(db, table, lastId, d, "connect").body.status = "unhealthy"

\* the fixed details of the handlers' 500 answers
GenericDetail(op) ==
    CASE op = "list"    -> "An internal server error occurred while fetching expenses."
      [] op = "add"     -> "An internal server error occurred while adding expenses."
      [] op = "delete"  -> "An internal server error occurred while deleting expenses."
      [] op = "summary" -> "An internal server error occurred while fetching the summary."

\* the data-access method was called once, with these arguments
CalledOnce(o, method, args) == o.calls = <<Call(method, args)>>

\* C8: with a storage handle, when a data-access call of list, create-batch,
\* delete or summary raises, the answer is 500 with the handler's fixed
\* detail, whatever the driver's error, and nothing is retried: the method
\* was called once (create-batch, whose loop runs among the requests of other
\* workers: once per item up to the one that raised).
C8_GenericServerError ==
    db # "None" =>
        /\ \A d \in Dates :
             /\ \A f \in RaisingFaults(FALSE) :
                  \A o \in {get_expenses_for_date(db, table, lastId, d, f)} :
                      /\ o.status = 500
                      /\ o.body = [detail |-> GenericDetail("list")]
                      /\ CalledOnce(o, "fetch_expenses_for_date", <<d>>)
             /\ \A f \in RaisingFaults(TRUE) :
                  \A o \in {delete_expenses_for_date(db, table, lastId, d, f)} :
                      /\ o.status = 500
                      /\ o.body = [detail |-> GenericDetail("delete")]
                      /\ CalledOnce(o, "delete_expenses_for_date", <<d>>)
        /\ \A s \in Dates : \A e \in Dates : \A f \in RaisingFaults(FALSE) :
             s <= e =>
                 \A fetched \in SummaryRows(table, s, e) :
                 \A o \in {get_expense_summary(db, table, lastId, s, e, f,
                                               fetched)} :
                     /\ o.status = 500
                     /\ o.body = [detail |-> GenericDetail("summary")]
                     /\ CalledOnce(o, "fetch_expense_summary", <<s, e>>)
        /\ \A d \in Dates : \A expenses \in Batches :
             (ValidBatch(expenses) /\ Len(expenses) = 1) =>
                 \A f \in RaisingFaults(TRUE) :
                     \A o \in {add_expenses_for_date(db, table, lastId, d,
                                                      expenses, <<f>>)} :
                         /\ o.status = 500
                         /\ o.body = [detail |-> GenericDetail("add")]
                         /\ CalledOnce(o, "insert_expense",
                                       <<d, expenses[1].category,
                                         expenses[1].notes, expenses[1].amount>>)
        /\ \A r \in Requests :
             r.state = "failed" =>
                 /\ resp.op = "add"
                 /\ resp.status = 500
                 /\ resp.body = [detail |-> GenericDetail("add")]
                 /\ Len(r.calls) = Len(r.inserted_ids) + 1
                 /\ resp.calls = [i \in 1..Len(r.calls) |-> "insert_expense"]
                 /\ \A i \in 1..Len(r.calls) :
                      r.calls[i] =
                          Call("insert_expense",
                               <<r.date, r.expenses[i].category,
                                 r.expenses[i].notes, r.expenses[i].amount>>)

\* a delete whose data-access call raised was answered 500 after one call
C8_Witness ==
    /\ resp.op = "delete"
    /\ resp.status = 500
    /\ resp.body = [detail |-> GenericDetail("delete")]
    /\ resp.calls = <<"delete_expenses_for_date">>

DatesOfRows(t) == { t[i].expense_date : i \in 1..Len(t) }

\* C9 as claimed, for requests that reach storage and whose data-access call
\* returns: when no persisted record has date D, list-for-date D answers 200
\* with an empty collection, delete-for-date D answers 200 with deleted_count
\* 0, and neither changes the persisted records; and a delete for D issued
\* directly after a successful delete for D returns count 0.
C9_EmptyDate ==
    db # "None" =>
        \A D \in Dates :
            /\ D \notin DatesOfRows(table) =>
                 /\ \A f \in ReturningFaults(FALSE) :
                      \A o \in {get_expenses_for_date(db, table, lastId, D, f)} :
                          o.status = 200 /\ o.body = <<>> /\ o.table = table
                 /\ \A f \in ReturningFaults(TRUE) :
                      \A o \in {delete_expenses_for_date(db, table, lastId, D, f)} :
                          /\ o.status = 200
                          /\ o.body.deleted_count = 0
                          /\ o.table = table
            /\ \A f1 \in Faults :
                 \A o1 \in {delete_expenses_for_date(db, table, lastId, D, f1)} :
                     o1.status = 200 =>
                         \A f2 \in ReturningFaults(TRUE) :
                             \A o2 \in {delete_expenses_for_date(db, o1.table, o1.lastId, D, f2)} :
                                 o2.status = 200 /\ o2.body.deleted_count = 0

\* C10 as claimed: a delete-for-date D answered 200 has removed exactly the
\* persisted records of date D, reports their number as deleted_count, and
\* leaves every record of another date as it was.
C10_DeleteExact ==
    db # "None" =>
        \A D \in Dates : \A f \in Faults :
            \A o \in {delete_expenses_for_date(db, table, lastId, D, f)} :
                o.status = 200 =>
                    /\ RowSet(o.table) = { r \in RowSet(table) : r.expense_date # D }
                    /\ o.body.deleted_count =
                           Cardinality({ r \in RowSet(table) : r.expense_date = D })

\* the sum of the amounts of a set of rows
RECURSIVE SumOfRows(_)
SumOfRows(S) ==
    IF S = {} THEN 0
    ELSE LET r == CHOOSE x \in S : TRUE
         IN  r.amount + SumOfRows(S \ {r})

\* the persisted rows whose date lies in the inclusive range s..e
RowsInRange(t, s, e) ==
    { r \in RowSet(t) : s <= r.expense_date /\ r.expense_date <= e }

\* C11: with a storage handle, a summary request with start_date <= end_date
\* whose read returns is answered 200 with exactly one entry for each category
\* that has a persisted record dated within start_date..end_date (both bounds
\* included), the entry's total_amount being the sum of the amounts of those
\* records, and with no entry for any other category; the persisted records are
\* left as they were.
C11_SummaryTotals ==
    db # "None" =>
        \A s \in Dates : \A e \in Dates : \A f \in ReturningFaults(FALSE) :
            s <= e =>
                \A fetched \in SummaryRows(table, s, e) :
                \A o \in {get_expense_summary(db, table, lastId, s, e, f,
                                              fetched)} :
                    LET inRange == RowsInRange(table, s, e)
                        cats    == { r.category : r \in inRange }
                    IN  /\ o.status = 200
                        /\ { o.body[i].category : i \in 1..Len(o.body) } = cats
                        /\ Len(o.body) = Cardinality(cats)
                        /\ \A i \in 1..Len(o.body) :
                             /\ DOMAIN o.body[i] = {"category", "total_amount"}
                             /\ o.body[i].total_amount =
                                  SumOfRows({ r \in inRange :
                                                r.category = o.body[i].category })
                        /\ o.table = table

\* a summary answered one entry that adds up two persisted records of one
\* category
C11_Witness ==
    /\ resp.op = "summary"
    /\ resp.status = 200
    /\ Len(table) = 2
    /\ Len(resp.body) = 1
    /\ resp.body[1].total_amount = table[1].amount + table[2].amount

\* C12 as claimed: once records are persisted for date D, a list-for-date D
\* whose read returns answers with one element per persisted record of D and
\* none of another date, each element carrying its record's generated id, the
\* ids being pairwise distinct.
C12_ListCarriesIds ==
    db # "None" =>
        \A D \in Dates : \A f \in ReturningFaults(FALSE) :
            D \in DatesOfRows(table) =>
                \A o \in {get_expenses_for_date(db, table, lastId, D, f)} :
                    LET rows == RowsInRange(table, D, D)
                    IN  /\ o.status = 200
                        /\ Len(o.body) = Cardinality(rows)
                        /\ \A i \in 1..Len(o.body) : "id" \in DOMAIN o.body[i]
                        /\ { o.body[i].id : i \in 1..Len(o.body) }
                               = { r.id : r \in rows }

\* C12 as amended: once records are persisted for date D, a list-for-date D
\* whose read returns answers 200 with one element per persisted record of D
\* and none of another date; each element is its record's category, notes and
\* amount and nothing else (the response model drops id and expense_date), in
\* the order of the records' ids; the ids of the persisted records are
\* pairwise distinct.
C12_ListEchoesRecords ==
    db # "None" =>
        /\ \A i \in 1..Len(table) : \A j \in 1..Len(table) :
               table[i].id = table[j].id => i = j
        /\ \A D \in Dates : \A f \in ReturningFaults(FALSE) :
             D \in DatesOfRows(table) =>
                 \A o \in {get_expenses_for_date(db, table, lastId, D, f)} :
                     LET idx == { i \in 1..Len(table) : table[i].expense_date = D }
                     IN  /\ o.status = 200
                         /\ Len(o.body) = Cardinality(idx)
                         /\ \A k \in 1..Len(o.body) :
                              \E i \in idx :
                                  /\ Cardinality({ j \in idx : j <= i }) = k
                                  /\ o.body[k] = [ category |-> table[i].category,
                                                   notes    |-> table[i].notes,
                                                   amount   |-> table[i].amount ]
                         /\ o.table = table

\* a list answered the one record of its date while a record of the other
\* date is persisted too
C12_Witness ==
    /\ resp.op = "list"
    /\ resp.status = 200
    /\ Len(resp.body) = 1
    /\ Len(table) = 2
    /\ DOMAIN resp.body[1] = {"category", "notes", "amount"}

\* an item that carries an empty category or empty notes
HasEmptyText(e) ==
    \/ "category" \in DOMAIN e /\ e.category = ""
    \/ "notes" \in DOMAIN e /\ e.notes = ""

\* C13 as claimed: a create-batch in which any item has an empty category or
\* empty notes is rejected as a validation failure before any insert: no
\* insert_expense call, no record of the batch persisted.
C13_EmptyTextRejected ==
    \A d \in Dates : \A expenses \in TextBatches :
        (\E i \in 1..Len(expenses) : HasEmptyText(expenses[i])) =>
            \A dbh \in Handles :
            \A o \in {add_expenses_for_date(dbh, table, lastId, d, expenses,
                                             NoFaults(Len(expenses)))} :
                /\ o.status = 422
                /\ o.calls = <<>>
                /\ o.table = table

\* C13 as amended: a create-batch in which any item leaves out category or
\* notes is rejected with 422 before any insert, with no insert_expense call
\* and no record persisted; an item whose category or notes is the empty text
\* passes validation: with a storage handle and inserts that succeed, a batch
\* whose items all carry category, notes and an amount > 0 is answered 200 and
\* every item is persisted with its texts as submitted, empty ones included.
C13_MissingFieldRejected ==
    \A d \in Dates : \A expenses \in TextBatches : \A dbh \in Handles :
        \A o \in {add_expenses_for_date(dbh, table, lastId, d, expenses,
                                         NoFaults(Len(expenses)))} :
            /\ (\E i \in 1..Len(expenses) :
                    ~({"category", "notes"} \subseteq DOMAIN expenses[i])) =>
                   /\ o.status = 422
                   /\ o.calls = <<>>
                   /\ o.table = table
            /\ (/\ dbh # "None"
                /\ \A i \in 1..Len(expenses) :
                       /\ DOMAIN expenses[i] = {"category", "notes", "amount"}
                       /\ expenses[i].amount > 0) =>
                   /\ o.status = 200
                   /\ o.body.inserted_count = Len(expenses)
                   /\ o.table = table \o
                        [i \in 1..Len(expenses) |-> RowOfItem(lastId, d, expenses, i)]

\* a batch holding an item with an empty category was answered 200 and that
\* item is persisted
C13_Witness ==
    /\ resp.op = "add"
    /\ resp.status = 200
    /\ table # <<>>
    /\ table[Len(table)].category = ""
    /\ table[Len(table)].id = lastId

\* C14: the health probe always answers 200 with one of three bodies:
\* 'unhealthy'/'disconnected' exactly when the storage handle is absent (and
\* then without a read), 'degraded'/'error' exactly when the handle is present
\* and the probe read (one fetch for today's date) raises, 'healthy'/
\* 'connected' exactly when the handle is present and the read returns; the
\* probe never changes the persisted records.
C14_HealthThreeValued ==
    \A today \in Dates : \A f \in Faults : \A dbh \in Handles :
        \A o \in {health_check(dbh, table, lastId, today, f)} :
            LET absent == dbh = "None"
                fails  == ~absent /\ f \in RaisingFaults(FALSE)
                reads  == ~absent /\ f \in ReturningFaults(FALSE)
            IN  /\ o.status = 200
                /\ o.body \in { [status |-> "unhealthy", database |-> "disconnected"],
                                [status |-> "degraded",  database |-> "error"],
                                [status |-> "healthy",   database |-> "connected"] }
                /\ o.body.status = "unhealthy" <=> absent
                /\ o.body.status = "degraded" <=> fails
                /\ o.body.status = "healthy" <=> reads
                /\ absent => o.calls = <<>>
                /\ ~absent => o.calls = <<Call("fetch_expenses_for_date", <<today>>)>>
                /\ o.table = table
                /\ o.lastId = lastId

\* with records persisted, a probe whose read failed reported 'degraded'
C14_Witness ==
    /\ resp.op = "health"
    /\ resp.status = 200
    /\ resp.body = [status |-> "degraded", database |-> "error"]
    /\ resp.calls = <<"fetch_expenses_for_date">>
    /\ table # <<>>

\* the positions of a driver call in the log of the current data-access call
At(call) == { i \in 1..Len(cm.log) : cm.log[i] = call }

\* every call a precedes every call b in the log
Precedes(a, b) == \A i \in At(a) : \A j \in At(b) : i < j

\* the data-access call has ended: it returned or raised
Ended == cm.pc = "exit"

MutatingFailed ==
    /\ Ended
    /\ cm.commit
    /\ cm.result = "raised"
    /\ At("connect") # {}
    /\ cm.src # "connect"

\* C16 as claimed: when insert_expense or delete_expenses_for_date fails
\* after its connection was acquired, a rollback has been issued before the
\* connection was closed, no commit has taken effect, and the triggering error
\* is the one raised to the caller.
C16_RollbackOnFailure ==
    MutatingFailed =>
        /\ Cardinality(At("rollback")) = 1
        /\ Precedes("rollback", "conn.close")
        /\ ~cm.committed
        /\ table = cm.entry
        /\ cm.exc \in {"Error", "Exception"}
        /\ cm.src \in {"cursor", "execute", "commit"}

\* C16 as amended: when insert_expense or delete_expenses_for_date fails
\* after its connection was acquired, a rollback is issued, once and before
\* cursor and connection are closed, when the failure is a driver error and
\* the connection reports connected as the error is handled; no rollback is
\* issued for a non-driver exception nor on a connection that is lost.  In
\* every case no commit takes effect (the persisted records are those at
\* entry) and a commit was attempted only when it is the call that failed.
\* The error raised to the caller is the triggering one, unless the rollback
\* itself raises: then the rollback's error is raised in its place.
C16_RollbackWhenConnected ==
    /\ cm.pc = "except" =>
           \A ok \in BOOLEAN : \A n \in {cm_except(cm, ok)} :
               /\ n.log = Append(cm.log, "rollback")
                      <=> (cm.commit /\ cm.conn = "connected")
               /\ n.log # cm.log => n.log = Append(cm.log, "rollback")
               /\ IF ok \/ n.log = cm.log
                  THEN n.exc = cm.exc /\ n.src = cm.src
                  ELSE n.exc = "Error" /\ n.src = "rollback"
    /\ MutatingFailed =>
           /\ Cardinality(At("rollback")) <= 1
           /\ cm.exc = "Exception" => At("rollback") = {}
           /\ cm.exc = "Error" /\ cm.conn = "closed" => At("rollback") # {}
           /\ Precedes("rollback", "cursor.close")
           /\ Precedes("rollback", "conn.close")
           /\ ~cm.committed
           /\ table = cm.entry
           /\ At("commit") # {} =>
                  cm.log[Cardinality(At("connect")) + Cardinality(At("cursor"))
                         + Cardinality(At("execute")) + 1] = "commit"
           /\ cm.exc \in {"Error", "Exception"}
           /\ cm.src \in {"cursor", "execute", "commit", "rollback"}
           /\ cm.src = "rollback" => cm.exc = "Error" /\ At("rollback") # {}
           /\ \E i \in 1..Len(cm.log) :
                  /\ i = Cardinality(At("connect")) + Cardinality(At("cursor"))
                         + Cardinality(At("execute")) + Cardinality(At("commit"))
                  /\ cm.src # "rollback" => cm.log[i] = cm.src
                  /\ At("rollback") # {} =>
                         /\ cm.log[i] \in {"cursor", "execute", "commit"}
                         /\ At("rollback") = {i + 1}

\* an insert whose execute raised a driver error on a live connection ended
\* with a rollback issued before the closes
C16_Witness ==
    /\ MutatingFailed
    /\ cm.op = "insert"
    /\ cm.src = "execute"
    /\ cm.log = <<"connect", "cursor", "execute", "rollback",
                  "cursor.close", "conn.close">>

\* C17 as claimed: a mutating call that returned has executed exactly one
\* statement and committed exactly once, the execute before the commit and the
\* commit before the closes; a read executes at most one statement, exactly one
\* when it returns, and never commits or rolls back.
C17_ExecuteCommitClose ==
    Ended =>
        /\ (cm.commit /\ cm.result = "returned") =>
               /\ Cardinality(At("execute")) = 1
               /\ Cardinality(At("commit")) = 1
               /\ Precedes("execute", "commit")
               /\ Precedes("commit", "cursor.close")
               /\ Precedes("commit", "conn.close")
        /\ ~cm.commit =>
               /\ At("commit") = {}
               /\ At("rollback") = {}
               /\ Cardinality(At("execute")) <= 1
               /\ cm.result = "returned" => Cardinality(At("execute")) = 1

\* the list element of a payload item
EchoOf(e) == [category |-> e.category, notes |-> e.notes, amount |-> e.amount]

\* The states of C18.  While the loop of a create-batch for date D runs among
\* the requests of other workers, and at the moment it answers: the ids it
\* has drawn are in the order of its items and a record persisted under one
\* of them is that item's record; a list-for-date D served now answers each
\* of its records that is persisted, at the place of its id among the records
\* of D, whether or not the inserts of its other items have run; and the
\* answer, once N inserts have returned, is 200 with all N ids, whether or
\* not the N records are persisted.
C18_BatchInParts ==
    \A r \in Requests :
        LET ids == r.inserted_ids
            k   == Len(ids)
            D   == r.date
        IN  /\ IdsFollowItems(r)
            /\ r.state = "running" =>
                 /\ k < Len(r.expenses)
                 /\ \A o \in {get_expenses_for_date(db, table, lastId, D, "none")} :
                     /\ o.status = 200
                     /\ \A i \in 1..k :
                          BatchRow(r, i) \in RowSet(table) =>
                              o.body[Cardinality({ x \in RowSet(table) :
                                                     /\ x.expense_date = D
                                                     /\ x.id <= ids[i] })]
                                  = EchoOf(r.expenses[i])
                     /\ (r.id # 0 /\ NextRow(r) \in RowSet(table)) =>
                          o.body[Cardinality({ x \in RowSet(table) :
                                                 /\ x.expense_date = D
                                                 /\ x.id <= r.id })]
                              = EchoOf(NextItem(r))
            /\ r.state = "done" =>
                 /\ resp.op = "add"
                 /\ resp.status = 200
                 /\ k = Len(r.expenses)
                 /\ resp.body.inserted_ids = ids
                 /\ resp.body.inserted_count = k
            /\ r.state = "failed" =>
                 /\ resp.op = "add"
                 /\ resp.status = 500
                 /\ k < Len(r.expenses)

\* The steps of C18.  Each insert is its own transaction: a step adds at most
\* one record to the persisted ones, the record of the item whose insert a
\* create-batch is committing, and the commit that ran makes exactly that
\* record visible to the other workers, before the call returns and before
\* the inserts of the items after it.
CommitsSingly ==
    LET added == RowSet(table') \ RowSet(table)
    IN  /\ Cardinality(added) <= 1
        /\ \A x \in added :
               \E b \in DOMAIN Rest(inflight) :
                   /\ Rest(inflight)[b].pc = "commit"
                   /\ inflight'[b].pc = "return"
                   /\ inflight'[b].committed
                   /\ x = NextRow(Rest(inflight)[b])
        /\ \A b \in DOMAIN Rest(inflight) :
               (/\ Rest(inflight)[b].pc = "commit"
                /\ inflight'[b].pc = "return"
                /\ inflight'[b].committed) =>
                   RowSet(table') =
                       RowSet(table) \cup {NextRow(Rest(inflight)[b])}

\* C18: a create-batch is not atomic towards the requests of other workers:
\* each of its inserts commits on its own, so that a delete-for-date D can
\* take effect between two inserts of a batch for D, the create then reports
\* success with N ids while only a part of the N records is persisted, and a
\* list-for-date D served meanwhile shows a part of the batch: in every state
\* C18_BatchInParts holds, and in every step CommitsSingly.
C18_InsertsCommitSingly == [](C18_BatchInParts) /\ [][CommitsSingly]_vars

\* a create-batch of two items for D was answered 200 with two ids while only
\* the second item is persisted: a list for D served during the batch showed
\* the first item without the second, then a delete for D removed it, and the
\* second insert ran after that
C18_Witness ==
    \E r \in Requests :
        /\ r.state = "done"
        /\ resp.op = "add"
        /\ resp.status = 200
        /\ Len(resp.body.inserted_ids) = 2
        /\ r.seen
        /\ r.prefix
        /\ \A x \in RowSet(table) : x.id # r.inserted_ids[1]
        /\ BatchRow(r, 2) \in RowSet(table)

====
